---- MODULE Spec2Model ----
(***************************************************************************)
(* Model of pr_agent/git_providers/local_git_provider.py: the local git   *)
(* provider (LocalGitProvider) and the PR stand-in (PullRequestMimic).     *)
(*                                                                         *)
(* The repository on disk is the shared state: the checked-out branch, the *)
(* branch heads, the tree at each head and the state of the index.  An     *)
(* instance of the provider is a record of its fields and a position in    *)
(* __init__ / __del__.  A tree maps a path to a blob: 0 for "no such file",*)
(* 1..NumContents for a text content, Binary for bytes that are no UTF-8.  *)
(***************************************************************************)
EXTENDS Integers, Sequences, FiniteSets, TLC

\* ---------------------------------------------------------------- bounds
MaxPath == 3
NumContents == 3
MaxCommits == 1

\* ------------------------------------------------------------- constants
\* a_blob / b_blob / old_filename "is None"
None == 0
\* original_file_content_str = ""  (the empty string)
EmptyStr == 0

Paths == 1..MaxPath
TextContents == 1..NumContents
Binary == NumContents + 1
Blobs == (0..NumContents) \cup {Binary}
Trees == [Paths -> Blobs]
TextTrees == [Paths -> 0..NumContents]
EmptyTree == [p \in Paths |-> 0]

EDIT_TYPE == [ADDED |-> "ADDED", DELETED |-> "DELETED", MODIFIED |-> "MODIFIED", RENAMED |-> "RENAMED"]

Min(S) == CHOOSE x \in S : \A y \in S : x <= y

\* ------------------------------------------------ git diff-tree -M (renames)
\* Two text contents that git's similarity index pairs as "renamed and edited".
Similar(c, d) == c \in TextContents /\ d \in TextContents /\ c # d /\ c \div 2 = d \div 2

Deleted(a, b) == {p \in Paths : a[p] # 0 /\ b[p] = 0}
Created(a, b) == {p \in Paths : a[p] = 0 /\ b[p] # 0}

\* One pass of rename detection over the created paths in path order: a
\* created path takes the first deleted path not yet used whose content is
\* identical (exact pass) or similar (inexact pass).
RECURSIVE PairFrom(_, _, _, _, _)
PairFrom(a, b, p, m, exact) ==
    IF p > MaxPath THEN m
    ELSE LET used == {m[q] : q \in Paths} \ {0}
             cands == {s \in Deleted(a, b) \ used :
                          IF exact THEN a[s] = b[p] ELSE Similar(a[s], b[p])}
         IN  IF p \in Created(a, b) /\ m[p] = 0 /\ cands # {}
             THEN PairFrom(a, b, p + 1, [m EXCEPT ![p] = Min(cands)], exact)
             ELSE PairFrom(a, b, p + 1, m, exact)

\* RenameSrc(a, b)[p] is the path p was renamed from, 0 when p is no rename.
RenameSrc(a, b) ==
    PairFrom(a, b, 1, PairFrom(a, b, 1, [p \in Paths |-> 0], TRUE), FALSE)

\* The Diff object GitPython builds for destination path p, as a sequence of
\* zero or one items.  With create_patch a rename without content change has
\* no "index" line in the patch, and GitPython leaves both blobs None.
DiffItem(a, b, p, create_patch) ==
    LET src == RenameSrc(a, b)
        item(ap, ab, bb, nf, df, rf) ==
            [a_path |-> ap, b_path |-> p, a_blob |-> ab, b_blob |-> bb,
             new_file |-> nf, deleted_file |-> df, renamed_file |-> rf]
    IN  IF a[p] = b[p] THEN << >>
        ELSE IF p \in Created(a, b) THEN
            IF src[p] # 0 THEN
                IF create_patch /\ a[src[p]] = b[p]
                THEN << item(src[p], None, None, FALSE, FALSE, TRUE) >>
                ELSE << item(src[p], a[src[p]], b[p], FALSE, FALSE, TRUE) >>
            ELSE << item(p, None, b[p], TRUE, FALSE, FALSE) >>
        ELSE IF p \in Deleted(a, b) THEN
            IF \E q \in Paths : src[q] = p THEN << >>
            ELSE << item(p, a[p], None, FALSE, TRUE, FALSE) >>
        ELSE << item(p, a[p], b[p], FALSE, FALSE, FALSE) >>

RECURSIVE DiffFrom(_, _, _, _)
DiffFrom(a, b, p, create_patch) ==
    IF p > MaxPath THEN << >>
    ELSE DiffItem(a, b, p, create_patch) \o DiffFrom(a, b, p + 1, create_patch)

\* git diff-tree a b: the changes that lead from tree a to tree b, in the
\* order of the destination paths.
DiffTree(a, b, create_patch) == DiffFrom(a, b, 1, create_patch)

\* Mutant: the R=True flag is dropped.
CommitDiff_unreversed(self, other, create_patch, R) == DiffTree(self, other, create_patch)

\* commit.diff(other, R=...): GitPython runs git diff-tree [-R] self other;
\* -R swaps the two sides.
CommitDiff(self, other, create_patch, R) ==
    IF R THEN DiffTree(other, self, create_patch) ELSE DiffTree(self, other, create_patch)

\* blob.data_stream.read().decode('utf-8') fails on bytes that are no UTF-8.
Decodable(blob) == blob # Binary
decode(blob) == blob

\* Mutant: the renamed_file branch is missing.
edit_type_of_no_rename(diff_item) ==
    IF diff_item.new_file THEN EDIT_TYPE.ADDED
    ELSE IF diff_item.deleted_file THEN EDIT_TYPE.DELETED
    ELSE EDIT_TYPE.MODIFIED

\* lines 91-105 and 112 for one diff_item
edit_type_of(diff_item) ==
    IF diff_item.new_file THEN EDIT_TYPE.ADDED
    ELSE IF diff_item.deleted_file THEN EDIT_TYPE.DELETED
    ELSE IF diff_item.renamed_file THEN EDIT_TYPE.RENAMED
    ELSE EDIT_TYPE.MODIFIED

\* Mutant: old_filename is a_path also when the path did not change.
FilePatchInfo_old_always(diff_item) ==
    [base_file |-> IF diff_item.a_blob # None THEN decode(diff_item.a_blob) ELSE EmptyStr,
     head_file |-> IF diff_item.b_blob # None THEN decode(diff_item.b_blob) ELSE EmptyStr,
     patch |-> << diff_item.a_blob, diff_item.b_blob >>,
     filename |-> diff_item.b_path,
     edit_type |-> edit_type_of(diff_item),
     old_filename |-> diff_item.a_path]

\* lines 106-114: the record of one diff_item
FilePatchInfo(diff_item) ==
    [base_file |-> IF diff_item.a_blob # None THEN decode(diff_item.a_blob) ELSE EmptyStr,
     head_file |-> IF diff_item.b_blob # None THEN decode(diff_item.b_blob) ELSE EmptyStr,
     patch |-> << diff_item.a_blob, diff_item.b_blob >>,
     filename |-> diff_item.b_path,
     edit_type |-> edit_type_of(diff_item),
     old_filename |-> IF diff_item.a_path = diff_item.b_path THEN None ELSE diff_item.a_path]

\* get_diff_files on a repository whose HEAD commit has tree head_tree and
\* whose comparison branch has tree branch_tree: the records, or the error.
get_diff_files(head_tree, branch_tree) ==
    LET diffs == CommitDiff(head_tree, branch_tree, TRUE, TRUE)
        bad == \E k \in 1..Len(diffs) :
                  ~Decodable(diffs[k].a_blob) \/ ~Decodable(diffs[k].b_blob)
    IN  IF bad THEN [err |-> "UnicodeDecodeError", val |-> << >>]
        ELSE [err |-> "", val |-> [k \in 1..Len(diffs) |-> FilePatchInfo(diffs[k])]]

\* Mutant: the list is built of the b_path of the items.
changed_paths_b_path(head_tree, branch_tree) ==
    LET diff_index == CommitDiff(head_tree, branch_tree, FALSE, FALSE)
    IN  [k \in 1..Len(diff_index) |-> diff_index[k].b_path]

\* lines 128-130 of get_files
changed_paths(head_tree, branch_tree) ==
    LET diff_index == CommitDiff(head_tree, branch_tree, FALSE, FALSE)
    IN  [k \in 1..Len(diff_index) |-> diff_index[k].a_path]

\* ------------------------------------------------------- get_pr_description
\* A string is the sequence of its characters.
RECURSIVE join(_, _)
\* sep.join(strs)
join(sep, strs) ==
    IF strs = << >> THEN << >>
    ELSE IF Len(strs) = 1 THEN strs[1]
    ELSE strs[1] \o sep \o join(sep, Tail(strs))

\* s[:stop] for stop >= 0: the characters before position stop
slice_to(s, stop) == [k \in 1..(IF Len(s) < stop THEN Len(s) ELSE stop) |-> s[k]]

DescLimit == 200

\* Mutant: the joined messages are returned whole.
get_pr_description_whole(messages) == join(<< " " >>, messages)

\* lines 184-189 on the messages of the commits of branch_name..HEAD, in the
\* order iter_commits yields them
get_pr_description(messages) == slice_to(join(<< " " >>, messages), DescLimit)

\* Commit messages: n times the character c
Message(n, c) == [k \in 1..n |-> c]
\* lengths around the limit and around half of it
MsgLens == {0, 1, 99, 100, 101, 199, 200, 201}
Messages == {Message(n, "m") : n \in MsgLens} \cup {Message(1, " "), Message(100, "n")}
MaxMsgs == 2
RECURSIVE SeqsUpTo(_, _)
SeqsUpTo(S, n) ==
    IF n = 0 THEN {<< >>}
    ELSE LET shorter == SeqsUpTo(S, n - 1)
         IN  shorter \cup {Append(q, x) : q \in {r \in shorter : Len(r) = n - 1}, x \in S}


\* ------------------------------------------------------------------ state
VARIABLES
    active_branch,     \* repo.head.ref.name, or Detached
    heads,             \* repo.heads: the names of the branches
    tip,               \* tip[b]: the tree of the commit branch b points to
    index,             \* "clean", "dirty" (uncommitted changes), "unmerged" (rebase stopped)
    ncommits,          \* commits made by others so far
    pc,                \* pc[i]: where instance i is
    head_branch_name,  \* self.head_branch_name
    branch_name,       \* self.branch_name
    tmp_branch_name,   \* self.tmp_branch_name
    diff_files,        \* self.diff_files: << >> for None / unset, << list >> otherwise
    pr,                \* self.pr: << >> when unset, << PullRequestMimic >> otherwise
    err,               \* the exception __init__ ended with, "" for none
    del_err,           \* the exception __del__ ended with, "" for none
    description_file,  \* the file at description_path
    review_file,       \* the file at review_path
    last,              \* the last provider call made and what it gave
    overlap,           \* an instance was constructed while another was alive
    refA, refB,        \* diff synthesis on its own: the two trees
    fwd, rev,          \* ... and the records of "B relative to A", "A relative to B"
    got_files,         \* ... and get_files() with HEAD at B, the comparison branch at A
    ndel,              \* ndel[i]: the runs of __del__ of instance i that have ended
    commits_diff,      \* the messages of the commits of <comparison branch>..HEAD, newest first
    desc               \* description synthesis on its own: << >> or << the description >>

repo_vars == << active_branch, heads, tip, index >>
inst_vars == << pc, head_branch_name, branch_name, tmp_branch_name, diff_files, pr, err, del_err >>
file_vars == << description_file, review_file >>
synth_vars == << refA, refB, fwd, rev >>
aux_vars == << ndel, commits_diff, desc, got_files >>
vars == << repo_vars, inst_vars, file_vars, synth_vars, aux_vars, ncommits, last, overlap >>

Inst == {1, 2}
Detached == "(detached)"
\* f'pr_agent_{uuid.uuid4()}': a name no other run generates
uuid4(i) == IF i = 1 THEN "pr_agent_1" ELSE "pr_agent_2"
\* "dev" is a name a caller may pass that is no branch of the repository
UserBranches == {"feat", "main"}
Branches == UserBranches \cup {uuid4(i) : i \in Inst}

\* The trees the lifecycle runs on: at path 1 no file, a text file or a
\* binary file; at path 2 no file or the same text file.
LifeTrees ==
    {[p \in Paths |-> IF p = 1 THEN x ELSE IF p = 2 THEN y ELSE 0] : x \in {0, 1, Binary}, y \in {0, 1}}

NoFile == [exists |-> FALSE, data |-> << >>]
NoCall == [op |-> "", inst |-> 0, err |-> "", ret |-> << >>]
Call(op, i, e, ret) == [op |-> op, inst |-> i, err |-> e, ret |-> ret]

\* repo.head.commit.tree; a stopped rebase is only ever left by a failed call.
HeadTree == IF active_branch \in heads THEN tip[active_branch] ELSE EmptyTree

\* Mutant: the dirty check is skipped.
is_dirty_skipped == FALSE

\* repo.is_dirty(): staged, unstaged or unmerged changes of tracked files
is_dirty == index # "clean"

\* git rebase main replays HEAD's commits on main: each path ends with HEAD's
\* version or main's.
RebaseResults(t, m) == {[p \in Paths |-> IF p \in S THEN t[p] ELSE m[p]] : S \in SUBSET Paths}
\* The replay can stop on a conflict when the two trees disagree.
CanConflict(t, m) == t # m

\* git checkout <name>: refused while the index has unmerged entries, and for
\* a name that is no branch.
CheckoutOk(name) == index # "unmerged" /\ name \in heads

LifeInit ==
    /\ active_branch = "feat"
    /\ heads \in {{"feat"}, {"feat", "main"}}
    /\ \E f \in LifeTrees, m \in LifeTrees :
          tip = [b \in Branches |-> IF b = "feat" THEN f
                                    ELSE IF b = "main" /\ b \in heads THEN m ELSE EmptyTree]
    /\ index \in {"clean", "dirty"}
    /\ ncommits = 0
    /\ pc = [i \in Inst |-> "UNPREPARED"]
    /\ head_branch_name = [i \in Inst |-> ""]
    /\ branch_name = [i \in Inst |-> ""]
    /\ tmp_branch_name = [i \in Inst |-> ""]
    /\ diff_files = [i \in Inst |-> << >>]
    /\ pr = [i \in Inst |-> << >>]
    /\ err = [i \in Inst |-> ""]
    /\ del_err = [i \in Inst |-> ""]
    /\ description_file = NoFile
    /\ review_file = NoFile
    /\ last = NoCall
    /\ overlap = FALSE
    /\ ndel = [i \in Inst |-> 0]
    /\ desc = << >>
    /\ got_files = << >>

SynthIdle == refA = EmptyTree /\ refB = EmptyTree /\ fwd = << >> /\ rev = << >>

\* <comparison branch>..HEAD holds no commit: HEAD is at or behind the branch
NoCommits == commits_diff = << >>

Init == LifeInit /\ SynthIdle /\ NoCommits


\* --------------------------------------------------------------- __init__
Alive(i) == pc[i] \notin {"UNPREPARED", "TORN_DOWN"}

\* lines 33-37: the fields set before the repository is prepared.
\* repo.head.ref raises TypeError on a detached HEAD.
init_fields(i, b) ==
    /\ pc[i] = "UNPREPARED"
    /\ overlap' = (overlap \/ \E j \in Inst \ {i} : Alive(j))
    /\ IF active_branch = Detached
       THEN /\ pc' = [pc EXCEPT ![i] = "FAILED"]
            /\ err' = [err EXCEPT ![i] = "TypeError"]
            /\ UNCHANGED << head_branch_name, branch_name, tmp_branch_name >>
       ELSE /\ pc' = [pc EXCEPT ![i] = "L38"]
            /\ head_branch_name' = [head_branch_name EXCEPT ![i] = active_branch]
            /\ branch_name' = [branch_name EXCEPT ![i] = b]
            /\ tmp_branch_name' = [tmp_branch_name EXCEPT ![i] = uuid4(i)]
            /\ UNCHANGED err
    /\ UNCHANGED << repo_vars, diff_files, pr, del_err, file_vars, synth_vars, aux_vars, ncommits, last >>

DirtyError == "ValueError: not in a clean state"
RebaseError == "ValueError: Error while rebasing"

\* lines 66-68 of prepare_repo: the check for uncommitted changes
prepare_repo(i) ==
    /\ IF is_dirty
       THEN /\ pc' = [pc EXCEPT ![i] = "FAILED"]
            /\ err' = [err EXCEPT ![i] = DirtyError]
       ELSE /\ pc' = [pc EXCEPT ![i] = "L69"]
            /\ UNCHANGED err
    /\ UNCHANGED << repo_vars, head_branch_name, branch_name, tmp_branch_name, diff_files, pr,
                    del_err, file_vars, synth_vars, aux_vars, ncommits, last, overlap >>

\* line 38: self._prepare_repo().  The class defines prepare_repo (line 62)
\* and no _prepare_repo, and the base class GitProvider is not part of the
\* sources: either the name resolves to the preparation the specification
\* gives to construction, or the attribute lookup raises AttributeError.
self_prepare_repo(i) ==
    \/ prepare_repo(i)
    \/ /\ pc' = [pc EXCEPT ![i] = "FAILED"]
       /\ err' = [err EXCEPT ![i] = "AttributeError"]
       /\ UNCHANGED << repo_vars, head_branch_name, branch_name, tmp_branch_name, diff_files, pr,
                       del_err, file_vars, synth_vars, aux_vars, ncommits, last, overlap >>

init_prepare(i) ==
    /\ pc[i] = "L38"
    /\ self_prepare_repo(i)

\* Mutant: git branch <tmp> HEAD, the branch is created and not checked out.
checkout_b_no_switch(name) ==
    /\ heads' = heads \cup {name}
    /\ tip' = [tip EXCEPT ![name] = HeadTree]
    /\ UNCHANGED active_branch

\* git checkout -b <tmp> HEAD: the new branch points at HEAD's commit and
\* becomes the checked-out branch.
checkout_b(name) ==
    /\ heads' = heads \cup {name}
    /\ tip' = [tip EXCEPT ![name] = HeadTree]
    /\ active_branch' = name

\* lines 69-71 of prepare_repo: drop a stale temporary branch, then create
\* the temporary branch at HEAD and check it out.
prepare_repo_checkout(i) ==
    /\ pc[i] = "L69"
    /\ IF index = "unmerged" \/ active_branch = tmp_branch_name[i]
       THEN /\ pc' = [pc EXCEPT ![i] = "FAILED"]
            /\ err' = [err EXCEPT ![i] = "GitCommandError"]
            /\ UNCHANGED repo_vars
       ELSE /\ checkout_b(tmp_branch_name[i])
            /\ pc' = [pc EXCEPT ![i] = "L75"]
            /\ UNCHANGED << index, err >>
    /\ UNCHANGED << head_branch_name, branch_name, tmp_branch_name, diff_files, pr,
                    del_err, file_vars, synth_vars, aux_vars, ncommits, last, overlap >>

\* lines 73-77 of prepare_repo: git rebase main on the checked-out branch.
\* It fails when main is no branch or a rebase is already stopped; it may
\* stop on a conflict, which leaves HEAD detached and the index unmerged.
prepare_repo_rebase(i) ==
    /\ pc[i] = "L75"
    /\ \/ /\ "main" \in heads /\ index = "clean" /\ active_branch \in heads
          /\ \E r \in RebaseResults(tip[active_branch], tip["main"]) :
                tip' = [tip EXCEPT ![active_branch] = r]
          /\ pc' = [pc EXCEPT ![i] = "L39"]
          /\ UNCHANGED << active_branch, heads, index, err >>
       \/ /\ "main" \in heads /\ index = "clean" /\ active_branch \in heads
          /\ CanConflict(tip[active_branch], tip["main"])
          /\ active_branch' = Detached
          /\ index' = "unmerged"
          /\ pc' = [pc EXCEPT ![i] = "FAILED"]
          /\ err' = [err EXCEPT ![i] = RebaseError]
          /\ UNCHANGED << heads, tip >>
       \/ /\ ~("main" \in heads /\ index = "clean" /\ active_branch \in heads)
          /\ pc' = [pc EXCEPT ![i] = "FAILED"]
          /\ err' = [err EXCEPT ![i] = RebaseError]
          /\ UNCHANGED repo_vars
    /\ UNCHANGED << head_branch_name, branch_name, tmp_branch_name, diff_files, pr,
                    del_err, file_vars, synth_vars, aux_vars, ncommits, last, overlap >>

\* get_pr_title, lines 191-195
get_pr_title(i) == branch_name[i]

\* get_diff_files as the instance runs it: repo.branches[branch_name] raises
\* IndexError for a name that is no branch.
diff_now(i) ==
    IF branch_name[i] \notin heads THEN [err |-> "IndexError", val |-> << >>]
    ELSE get_diff_files(HeadTree, tip[branch_name[i]])

PullRequestMimic(title, files) == [title |-> title, diff_files |-> files]

\* lines 39-46: the diff is computed and the PR stand-in built.
init_pr(i) ==
    /\ pc[i] = "L39"
    /\ LET d == diff_now(i)
       IN  IF d.err # ""
           THEN /\ pc' = [pc EXCEPT ![i] = "FAILED"]
                /\ err' = [err EXCEPT ![i] = d.err]
                /\ UNCHANGED << diff_files, pr >>
           ELSE /\ pc' = [pc EXCEPT ![i] = "PREPARED"]
                /\ diff_files' = [diff_files EXCEPT ![i] = << d.val >>]
                /\ pr' = [pr EXCEPT ![i] = << PullRequestMimic(get_pr_title(i), d.val) >>]
                /\ UNCHANGED err
    /\ UNCHANGED << repo_vars, head_branch_name, branch_name, tmp_branch_name,
                    del_err, file_vars, synth_vars, aux_vars, ncommits, last, overlap >>

\* ---------------------------------------------------------------- __del__
\* Mutant: the checkout of line 50 is missing.
git_checkout_skipped(i) ==
    /\ pc' = [pc EXCEPT ![i] = "L52"]
    /\ del_err' = [del_err EXCEPT ![i] = ""]
    /\ UNCHANGED << repo_vars, head_branch_name, branch_name, tmp_branch_name, diff_files,
                    pr, err, file_vars, synth_vars, aux_vars, ncommits, last, overlap >>

\* line 50: git checkout <head_branch_name>.  An instance whose __init__
\* failed before line 35 has no head_branch_name.
git_checkout_head_branch(i) ==
    /\ IF head_branch_name[i] = ""
       THEN /\ pc' = [pc EXCEPT ![i] = "TORN_DOWN"]
            /\ del_err' = [del_err EXCEPT ![i] = "AttributeError"]
            /\ ndel' = [ndel EXCEPT ![i] = @ + 1]
            /\ UNCHANGED active_branch
       ELSE IF CheckoutOk(head_branch_name[i])
       THEN /\ active_branch' = head_branch_name[i]
            /\ pc' = [pc EXCEPT ![i] = "L52"]
            /\ del_err' = [del_err EXCEPT ![i] = ""]
            /\ UNCHANGED ndel
       ELSE /\ pc' = [pc EXCEPT ![i] = "TORN_DOWN"]
            /\ del_err' = [del_err EXCEPT ![i] = "GitCommandError"]
            /\ ndel' = [ndel EXCEPT ![i] = @ + 1]
            /\ UNCHANGED active_branch
    /\ UNCHANGED << heads, tip, index, head_branch_name, branch_name, tmp_branch_name, diff_files,
                    pr, err, file_vars, synth_vars, commits_diff, desc, got_files, ncommits, last,
                    overlap >>

\* __del__ of an instance whose __init__ has ended
del_checkout(i) ==
    /\ pc[i] \in {"PREPARED", "FAILED"}
    /\ git_checkout_head_branch(i)

MaxTeardowns == 2

\* __del__ called again on an instance it has already run on
del_again(i) ==
    /\ pc[i] = "TORN_DOWN"
    /\ ndel[i] < MaxTeardowns
    /\ git_checkout_head_branch(i)

DeleteError == "ValueError: Error while trying to delete"

\* lines 52-60: the temporary branch is deleted when it is among the heads;
\* git branch -D refuses to delete the checked-out branch.
del_delete_head(i) ==
    /\ pc[i] = "L52"
    /\ pc' = [pc EXCEPT ![i] = "TORN_DOWN"]
    /\ ndel' = [ndel EXCEPT ![i] = @ + 1]
    /\ IF tmp_branch_name[i] \notin heads
       THEN UNCHANGED << heads, tip, del_err >>
       ELSE IF active_branch = tmp_branch_name[i]
       THEN /\ del_err' = [del_err EXCEPT ![i] = DeleteError]
            /\ UNCHANGED << heads, tip >>
       ELSE /\ heads' = heads \ {tmp_branch_name[i]}
            /\ tip' = [tip EXCEPT ![tmp_branch_name[i]] = EmptyTree]
            /\ UNCHANGED del_err
    /\ UNCHANGED << active_branch, index, head_branch_name, branch_name, tmp_branch_name,
                    diff_files, pr, err, file_vars, synth_vars, commits_diff, desc, got_files,
                    ncommits, last, overlap >>

\* lines 56-60 when git branch -D fails for a reason outside the provider (a
\* ref locked by another git process, a read-only .git directory)
del_delete_head_fails(i) ==
    /\ pc[i] = "L52"
    /\ tmp_branch_name[i] \in heads
    /\ pc' = [pc EXCEPT ![i] = "TORN_DOWN"]
    /\ ndel' = [ndel EXCEPT ![i] = @ + 1]
    /\ del_err' = [del_err EXCEPT ![i] = DeleteError]
    /\ UNCHANGED << repo_vars, head_branch_name, branch_name, tmp_branch_name,
                    diff_files, pr, err, file_vars, synth_vars, commits_diff, desc, got_files,
                    ncommits, last, overlap >>

\* prepare_repo (lines 62-77) called by the caller on an instance __del__ has
\* run on: the method is public and checks no state of the instance.  The
\* call is one step: the dirty check, the checkout of a new temporary branch
\* and the rebase, with the outcomes of prepare_repo_checkout and
\* prepare_repo_rebase.
prepare_repo_again(i) ==
    /\ pc[i] = "TORN_DOWN"
    /\ ndel[i] < MaxTeardowns
    /\ tmp_branch_name[i] # ""
    /\ \/ /\ is_dirty
          /\ last' = Call("prepare_repo", i, DirtyError, << >>)
          /\ UNCHANGED << repo_vars, pc >>
       \/ /\ ~is_dirty /\ active_branch = tmp_branch_name[i]
          /\ last' = Call("prepare_repo", i, "GitCommandError", << >>)
          /\ UNCHANGED << repo_vars, pc >>
       \/ /\ ~is_dirty /\ active_branch # tmp_branch_name[i]
          /\ heads' = heads \cup {tmp_branch_name[i]}
          /\ \/ /\ "main" \in heads
                /\ \E r \in RebaseResults(HeadTree, tip["main"]) :
                      tip' = [tip EXCEPT ![tmp_branch_name[i]] = r]
                /\ active_branch' = tmp_branch_name[i]
                /\ pc' = [pc EXCEPT ![i] = "PREPARED"]
                /\ last' = Call("prepare_repo", i, "", << >>)
                /\ UNCHANGED index
             \/ /\ "main" \in heads
                /\ CanConflict(HeadTree, tip["main"])
                /\ tip' = [tip EXCEPT ![tmp_branch_name[i]] = HeadTree]
                /\ active_branch' = Detached
                /\ index' = "unmerged"
                /\ last' = Call("prepare_repo", i, RebaseError, << >>)
                /\ UNCHANGED pc
             \/ /\ "main" \notin heads
                /\ tip' = [tip EXCEPT ![tmp_branch_name[i]] = HeadTree]
                /\ active_branch' = tmp_branch_name[i]
                /\ last' = Call("prepare_repo", i, RebaseError, << >>)
                /\ UNCHANGED << pc, index >>
    /\ UNCHANGED << head_branch_name, branch_name, tmp_branch_name, diff_files, pr, err,
                    del_err, file_vars, synth_vars, aux_vars, ncommits, overlap >>

Lifecycle(i) ==
    \/ \E b \in {"main", "dev"} : init_fields(i, b)
    \/ init_prepare(i)
    \/ prepare_repo_checkout(i)
    \/ prepare_repo_rebase(i)
    \/ init_pr(i)
    \/ del_checkout(i)
    \/ del_delete_head(i)


\* ------------------------------------------------- the provider interface
\* get_diff_files, lines 83-116: computed from the repository at each call
\* and stored in self.diff_files.
GetDiffFiles(i) ==
    /\ pc[i] = "PREPARED"
    /\ LET d == diff_now(i)
       IN  /\ last' = Call("get_diff_files", i, d.err, d.val)
           /\ diff_files' = IF d.err = "" THEN [diff_files EXCEPT ![i] = << d.val >>] ELSE diff_files
    /\ UNCHANGED << repo_vars, pc, head_branch_name, branch_name, tmp_branch_name, pr, err,
                    del_err, file_vars, synth_vars, aux_vars, ncommits, overlap >>

\* Mutant: the existence check of lines 123-125 is missing.
get_files_unchecked(i) ==
    Call("get_files", i, "", changed_paths(HeadTree, tip[branch_name[i]]))

\* get_files, lines 118-131
get_files(i) ==
    IF branch_name[i] \notin heads THEN Call("get_files", i, "KeyError", << >>)
    ELSE Call("get_files", i, "", changed_paths(HeadTree, tip[branch_name[i]]))

GetFiles(i) ==
    /\ pc[i] = "PREPARED"
    /\ last' = get_files(i)
    /\ UNCHANGED << repo_vars, inst_vars, file_vars, synth_vars, aux_vars, ncommits, overlap >>

Titles == {<< "T" >>}
Bodies == {<< "b" >>}
Comments == {<< "c" >>}

\* publish_description, lines 133-136: open(path, "w") and one write
publish_description(i, pr_title, pr_body) ==
    /\ description_file' = [exists |-> TRUE, data |-> pr_title \o << "\n" >> \o pr_body]
    /\ last' = Call("publish_description", i, "", << >>)
    /\ UNCHANGED << repo_vars, inst_vars, review_file, synth_vars, aux_vars, ncommits, overlap >>

\* Mutant: the comment is written to the description file as well.
publish_comment_both(i, pr_comment) ==
    /\ review_file' = [exists |-> TRUE, data |-> pr_comment]
    /\ description_file' = [exists |-> TRUE, data |-> pr_comment]
    /\ last' = Call("publish_comment", i, "", << >>)
    /\ UNCHANGED << repo_vars, inst_vars, synth_vars, aux_vars, ncommits, overlap >>

\* publish_comment, lines 138-141
publish_comment(i, pr_comment) ==
    /\ review_file' = [exists |-> TRUE, data |-> pr_comment]
    /\ last' = Call("publish_comment", i, "", << >>)
    /\ UNCHANGED << repo_vars, inst_vars, description_file, synth_vars, aux_vars, ncommits, overlap >>

Unsupported == {"publish_inline_comment", "create_inline_comment", "publish_inline_comments",
                "publish_code_suggestion", "publish_code_suggestions",
                "get_issue_comments", "get_labels"}

\* Mutant: the review file is truncated before the error is raised.
not_implemented_partial(i, m) ==
    /\ last' = Call(m, i, "NotImplementedError", << >>)
    /\ review_file' = [exists |-> TRUE, data |-> << >>]
    /\ UNCHANGED << repo_vars, inst_vars, description_file, synth_vars, aux_vars, ncommits, overlap >>

\* lines 143-157 and 197-201: raise NotImplementedError
not_implemented(i, m) ==
    /\ last' = Call(m, i, "NotImplementedError", << >>)
    /\ UNCHANGED << repo_vars, inst_vars, file_vars, synth_vars, aux_vars, ncommits, overlap >>

\* publish_labels (lines 159-160) and remove_initial_comment (162-163): pass
passes(i, m) ==
    /\ last' = Call(m, i, "", << >>)
    /\ UNCHANGED << repo_vars, inst_vars, file_vars, synth_vars, aux_vars, ncommits, overlap >>

\* The file names of the repository: path 1 is "a.PY", path 2 "b.md", every
\* other path has no suffix.  os.path.splitext(path)[1].lower().lstrip('.')
language_of(path) == IF path = 1 THEN "py" ELSE IF path = 2 THEN "md" ELSE ""

\* lines 168-176 on the tree of HEAD: for each language the share of the
\* files, count / total * 100, as the fraction num / den
language_percentages(tree) ==
    LET all_files == {p \in Paths : tree[p] # 0}
        langs == {language_of(p) : p \in all_files}
        count(lang) == Cardinality({p \in all_files : language_of(p) = lang})
    IN  {[lang |-> l, num |-> count(l) * 100, den |-> Cardinality(all_files)] : l \in langs}

\* get_languages, lines 165-176
get_languages(i) ==
    /\ last' = Call("get_languages", i, "", << language_percentages(HeadTree) >>)
    /\ UNCHANGED << repo_vars, inst_vars, file_vars, synth_vars, aux_vars, ncommits, overlap >>

\* get_pr_branch, lines 178-179: repo.head
get_pr_branch(i) ==
    /\ last' = Call("get_pr_branch", i, "", << active_branch >>)
    /\ UNCHANGED << repo_vars, inst_vars, file_vars, synth_vars, aux_vars, ncommits, overlap >>

\* get_user_id, lines 181-182
get_user_id(i) ==
    /\ last' = Call("get_user_id", i, "", << -1 >>)
    /\ UNCHANGED << repo_vars, inst_vars, file_vars, synth_vars, aux_vars, ncommits, overlap >>

\* get_pr_description as the instance runs it: git rev-list fails on a
\* comparison branch that does not exist.
GetPrDescription(i) ==
    /\ last' = IF branch_name[i] \notin heads
               THEN Call("get_pr_description", i, "GitCommandError", << >>)
               ELSE Call("get_pr_description", i, "", << get_pr_description(commits_diff) >>)
    /\ UNCHANGED << repo_vars, inst_vars, file_vars, synth_vars, aux_vars, ncommits, overlap >>

GetPrTitle(i) ==
    /\ last' = Call("get_pr_title", i, "", << get_pr_title(i) >>)
    /\ UNCHANGED << repo_vars, inst_vars, file_vars, synth_vars, aux_vars, ncommits, overlap >>

\* The operations the pipeline calls between construction and teardown.
Pipeline(i) ==
    /\ pc[i] = "PREPARED"
    /\ \/ GetDiffFiles(i)
       \/ GetFiles(i)
       \/ get_languages(i)
       \/ get_pr_branch(i)
       \/ get_user_id(i)
       \/ GetPrDescription(i)
       \/ GetPrTitle(i)
       \/ \E t \in Titles, b \in Bodies : publish_description(i, t, b)
       \/ \E c \in Comments : publish_comment(i, c)
       \/ \E m \in {"publish_labels", "remove_initial_comment"} : passes(i, m)

\* The operations with an effect or a result, and the unsupported ones.
Provider(i) ==
    \/ GetDiffFiles(i)
    \/ GetFiles(i)
    \/ \E t \in Titles, b \in Bodies : pc[i] = "PREPARED" /\ publish_description(i, t, b)
    \/ \E c \in Comments : pc[i] = "PREPARED" /\ publish_comment(i, c)
    \/ \E m \in Unsupported : pc[i] \in {"PREPARED", "TORN_DOWN"} /\ not_implemented(i, m)

\* ------------------------------------------- the repository's other users
\* A commit made while the provider is in use: on the checked-out branch by
\* git commit with a clean tree left behind, on another branch by a fetch or
\* an update of the ref.  (Commits made before construction are the choice
\* of the initial trees.)
Commit(b, t) ==
    /\ \E i \in Inst : pc[i] = "PREPARED"
    /\ b \in heads /\ index = "clean" /\ ncommits < MaxCommits
    /\ t # tip[b]
    /\ tip' = [tip EXCEPT ![b] = t]
    /\ ncommits' = ncommits + 1
    /\ commits_diff' = IF b = active_branch THEN << Message(1, "m") >> \o commits_diff
                       ELSE commits_diff
    /\ UNCHANGED << active_branch, heads, index, inst_vars, file_vars, synth_vars, ndel, desc,
                    got_files, last, overlap >>

\* git branch -D of a branch that is not checked out
DeleteBranch(b) ==
    /\ b \in heads /\ b # active_branch
    /\ heads' = heads \ {b}
    /\ tip' = [tip EXCEPT ![b] = EmptyTree]
    /\ UNCHANGED << active_branch, index, inst_vars, file_vars, synth_vars, aux_vars, ncommits, last, overlap >>

Env ==
    \/ \E b \in {active_branch, "main"}, t \in LifeTrees : Commit(b, t)
    \/ DeleteBranch("main")

\* One instance, its caller and the other users of the repository.
Next == Lifecycle(1) \/ Provider(1) \/ Env
Spec == Init /\ [][Next]_vars

\* One instance, every operation its pipeline calls, and the other users.
NextPipeline == Lifecycle(1) \/ Pipeline(1) \/ Env
SpecPipeline == Init /\ [][NextPipeline]_vars

\* The finalizer of an instance that is no longer referenced runs.
FairSpec == Spec /\ WF_vars(del_checkout(1)) /\ WF_vars(del_delete_head(1))

\* Two instances on the same checkout, their steps interleaved.
NextConc == \E i \in Inst : Lifecycle(i)
SpecConc == Init /\ [][NextConc]_vars

\* ------------------------------------------------- diff synthesis alone
\* The inputs: two trees of text files with at most two files each.
SynthTrees == {t \in TextTrees : Cardinality({p \in Paths : t[p] # 0}) <= 2}

LifeIdle ==
    /\ LifeInit
    /\ heads = {"feat"}
    /\ tip = [b \in Branches |-> EmptyTree]
    /\ index = "clean"

InitDiff ==
    /\ LifeIdle /\ NoCommits
    /\ refA \in SynthTrees /\ refB \in SynthTrees
    /\ fwd = << >> /\ rev = << >>

\* "B relative to A": HEAD at B, the comparison branch at A
SynthFwd ==
    /\ fwd = << >>
    /\ fwd' = << get_diff_files(refB, refA).val >>
    /\ UNCHANGED << repo_vars, inst_vars, file_vars, refA, refB, rev, aux_vars, ncommits, last, overlap >>

\* "A relative to B": HEAD at A, the comparison branch at B
SynthRev ==
    /\ rev = << >>
    /\ rev' = << get_diff_files(refA, refB).val >>
    /\ UNCHANGED << repo_vars, inst_vars, file_vars, refA, refB, fwd, aux_vars, ncommits, last, overlap >>

\* get_files() with HEAD at B, the comparison branch at A
SynthFiles ==
    /\ got_files = << >>
    /\ got_files' = << changed_paths(refB, refA) >>
    /\ UNCHANGED << repo_vars, inst_vars, file_vars, synth_vars, ndel, commits_diff, desc,
                    ncommits, last, overlap >>

NextDiff == SynthFwd \/ SynthRev \/ SynthFiles
SpecDiff == InitDiff /\ [][NextDiff]_vars

\* ------------------------------------------- description synthesis alone
\* The inputs: up to MaxMsgs commit messages, newest first.
InitDesc ==
    /\ LifeIdle /\ SynthIdle
    /\ commits_diff \in SeqsUpTo(Messages, MaxMsgs)

SynthDesc ==
    /\ desc = << >>
    /\ desc' = << get_pr_description(commits_diff) >>
    /\ UNCHANGED << repo_vars, inst_vars, file_vars, synth_vars, ndel, commits_diff, got_files,
                    ncommits, last, overlap >>

NextDesc == SynthDesc
SpecDesc == InitDesc /\ [][NextDesc]_vars

\* ------------------------------------------------ teardown and afterwards
\* One instance whose caller runs __del__ more than once and calls
\* prepare_repo on the instance again.
NextTeardown == Lifecycle(1) \/ del_again(1) \/ prepare_repo_again(1)
SpecTeardown == Init /\ [][NextTeardown]_vars

\* The same where git branch -D can fail for a reason outside the provider.
NextCleanup == NextTeardown \/ del_delete_head_fails(1)
SpecCleanup == Init /\ [][NextCleanup]_vars


\* ================================================================ claims
\* prepare_repo got past its dirty check in instance i's construction
PreparedClean(i) == tmp_branch_name[i] # "" /\ err[i] \notin {DirtyError, "AttributeError"}
Restored(i) == active_branch = head_branch_name[i] /\ tmp_branch_name[i] \notin heads

\* C1: on a repository with a clean working tree, prepare() followed by
\* teardown() ends on the original branch with no temporary branch left,
\* whether the rebase succeeded or stopped on a conflict.
C1_PrepareTeardownRestores ==
    (pc[1] = "TORN_DOWN" /\ PreparedClean(1)) => Restored(1)

\* The part of C1 the code keeps: the rebase did not stop on a conflict.
C1_RestoredUnlessConflict ==
    (pc[1] = "TORN_DOWN" /\ PreparedClean(1) /\ index # "unmerged") => Restored(1)

C1_ConflictWitness ==
    pc[1] = "TORN_DOWN" /\ err[1] = RebaseError /\ index = "unmerged"

\* C2: on a repository with uncommitted changes prepare() fails with the
\* dirty-working-tree error and changes nothing in the repository: the same
\* branch is checked out, and no branch is created or deleted.
C2_DirtyPrepareFails ==
    [][(pc[1] = "L38" /\ pc'[1] # "L38" /\ index # "clean" /\ err'[1] # "AttributeError")
         => (pc'[1] = "FAILED" /\ err'[1] = DirtyError /\ UNCHANGED repo_vars)]_vars

C2_Witness ==
    /\ pc[1] = "FAILED" /\ err[1] = DirtyError /\ index = "dirty"
    /\ active_branch = "feat" /\ tmp_branch_name[1] \notin heads

\* C3: construction on a clean repository whose comparison branch exists and
\* whose rebase succeeds prepares the repository and then computes the diff:
\* when it returns the temporary branch exists and is checked out, and the PR
\* stand-in holds the title and the diff computed of the temporary branch
\* against the comparison branch; at the diff step it fails only for a
\* missing comparison branch or an undecodable blob.
C3_ConstructionPrepares ==
    /\ [](pc[1] = "PREPARED" =>
            /\ tmp_branch_name[1] \in heads /\ active_branch = tmp_branch_name[1]
            /\ Len(pr[1]) = 1 /\ pr[1][1].title = branch_name[1])
    /\ [][(pc[1] = "L39" /\ pc'[1] = "PREPARED") =>
            /\ branch_name[1] \in heads /\ index = "clean" /\ err'[1] = ""
            /\ pr'[1][1].diff_files
                 = get_diff_files(tip[tmp_branch_name[1]], tip[branch_name[1]]).val
            /\ diff_files'[1] = << pr'[1][1].diff_files >>]_vars
    /\ [][(pc[1] = "L39" /\ pc'[1] = "FAILED") =>
            \/ branch_name[1] \notin heads /\ err'[1] = "IndexError"
            \/ /\ err'[1] = "UnicodeDecodeError"
               /\ \E p \in Paths : Binary \in {HeadTree[p], tip[branch_name[1]][p]}]_vars

C3_Witness ==
    /\ pc[1] = "PREPARED" /\ active_branch = tmp_branch_name[1]
    /\ Len(pr[1]) = 1 /\ Len(pr[1][1].diff_files) > 0 /\ pr[1][1].title = "main"

\* C4: when construction fails after the temporary branch was created
\* (rebase conflict, missing comparison branch, decode failure) the teardown
\* runs and the repository ends on the original branch with the temporary
\* branch gone.
C4_FailedConstructionReleased ==
    (pc[1] = "FAILED" /\ tmp_branch_name[1] \in heads)
        ~> (pc[1] = "TORN_DOWN" /\ Restored(1))

\* The part of C4 the code keeps: the failure was not a stopped rebase.
C4_ReleasedUnlessConflict ==
    (pc[1] = "FAILED" /\ tmp_branch_name[1] \in heads /\ index # "unmerged")
        ~> (pc[1] = "TORN_DOWN" /\ Restored(1))


\* ---- diff synthesis (SpecDiff)
Synthesized == Len(fwd) = 1 /\ Len(rev) = 1
Records(d) == {d[1][k] : k \in 1..Len(d[1])}
OnlyIn(t, u) == {p \in Paths : t[p] # 0 /\ u[p] = 0}
\* x of tree t has a rename counterpart among the files only tree u has
HasCounterpart(t, x, u) ==
    \E y \in OnlyIn(u, t) : u[y] = t[x] \/ Similar(u[y], t[x])

AddedThenDeleted(x) ==
    /\ \E r \in Records(fwd) : /\ r.filename = x /\ r.edit_type = EDIT_TYPE.ADDED
                               /\ r.base_file = EmptyStr /\ r.head_file = refB[x]
    /\ \E r \in Records(rev) : r.filename = x /\ r.edit_type = EDIT_TYPE.DELETED
DeletedThenAdded(x) ==
    /\ \E r \in Records(fwd) : r.filename = x /\ r.edit_type = EDIT_TYPE.DELETED
    /\ \E r \in Records(rev) : /\ r.filename = x /\ r.edit_type = EDIT_TYPE.ADDED
                               /\ r.base_file = EmptyStr /\ r.head_file = refA[x]

OnlyRename(t, u, a, b) ==
    /\ a # b /\ t[a] # 0 /\ t[b] = 0 /\ u[b] = t[a] /\ u[a] = 0
    /\ \A p \in Paths \ {a, b} : t[p] = u[p]

\* C6: when the only change between the two refs is a rename of a to b with
\* identical content, the diff is exactly one record, RENAMED, with
\* old_path a and path b.
C6_RenameDetected ==
    \A a, b \in Paths :
        (Len(fwd) = 1 /\ OnlyRename(refA, refB, a, b)) =>
            /\ Len(fwd[1]) = 1
            /\ fwd[1][1].edit_type = EDIT_TYPE.RENAMED
            /\ fwd[1][1].old_filename = a
            /\ fwd[1][1].filename = b

C6_Witness ==
    /\ Len(fwd) = 1 /\ Len(fwd[1]) = 1 /\ fwd[1][1].edit_type = EDIT_TYPE.RENAMED
    /\ \E a, b \in Paths : OnlyRename(refA, refB, a, b) /\ \E p \in Paths \ {a, b} : refA[p] # 0


\* ---- the provider interface (Spec)
\* C7: get_diff_files() returns the sequence computed once at construction,
\* the one the PR stand-in holds, whatever was committed in between.
C7_GetDiffFilesCached ==
    (last.op = "get_diff_files" /\ last.err = "") => last.ret = pr[last.inst][1].diff_files

\* The part of C7 the code keeps: the PR stand-in never changes once built.
C7_PrNeverChanges ==
    [][\A i \in Inst : Len(pr[i]) = 1 => pr'[i] = pr[i]]_vars

Range(q) == {q[k] : k \in 1..Len(q)}
Changed(t, u) == {p \in Paths : t[p] # u[p]}

C8_WitnessPaths ==
    last.op = "get_files" /\ last.err = "" /\ Len(last.ret) > 0

\* C10: get_issue_comments, get_labels, publish_inline_comment(s),
\* create_inline_comment and publish_code_suggestion(s) fail with the
\* unsupported-operation error in every state and change nothing: not the
\* checked-out branch, the branches, the cached diff or the two output files.
C10_UnsupportedChangesNothing ==
    [][(last' # last /\ last'.op \in Unsupported) =>
          /\ last'.err = "NotImplementedError"
          /\ UNCHANGED << repo_vars, inst_vars, file_vars >>]_vars

C10_Witness ==
    /\ last.op \in {"get_issue_comments", "publish_inline_comment"}
    /\ last.err = "NotImplementedError"
    /\ review_file.exists /\ description_file.exists /\ Len(diff_files[1]) = 1

\* ---- two instances on one checkout (SpecConc)
Done(i) == pc[i] \in {"UNPREPARED", "TORN_DOWN"}
\* The repository is not on the branch that was current before any instance
\* was constructed, or a temporary branch is left, or a teardown failed.
Damaged ==
    \/ active_branch # "feat"
    \/ \E i \in Inst : tmp_branch_name[i] \in heads
    \/ \E i \in Inst : del_err[i] # ""

\* C9, for lifetimes that do not overlap: once every instance is torn down
\* the repository is undamaged.
C9_SerialUseIsSafe ==
    (~overlap /\ \A i \in Inst : Done(i)) => ~Damaged

\* The part of C9 the code keeps: the same, when no rebase stopped.
C9_SerialUseIsSafeUnlessConflict ==
    (~overlap /\ index # "unmerged" /\ \A i \in Inst : Done(i)) => ~Damaged

\* C9, for lifetimes that overlap: a damaged end state that no stopped rebase
\* accounts for.
C9_OverlapWitness ==
    /\ overlap /\ \A i \in Inst : pc[i] = "TORN_DOWN"
    /\ index = "clean" /\ Damaged

\* ---- the description (SpecDesc)
\* C11: for every list of commits between the comparison branch and HEAD the
\* description is at most 200 characters long and is exactly the first
\* min(200, n) characters of the commit messages joined by single spaces,
\* n being the length of the joined string.
C11_DescriptionIsPrefix ==
    desc # << >> =>
        LET joined == join(<< " " >>, commits_diff)
            n == Len(joined)
        IN  /\ Len(desc[1]) <= 200
            /\ Len(desc[1]) = (IF n < 200 THEN n ELSE 200)
            /\ \A k \in 1..Len(desc[1]) : desc[1][k] = joined[k]

\* Two messages whose joined string is longer than the limit and is cut
\* inside the second message.
C11_Witness ==
    /\ desc # << >> /\ Len(commits_diff) = 2
    /\ Len(commits_diff[1]) = 101 /\ commits_diff[2] = Message(100, "n")
    /\ Len(desc[1]) = 200 /\ desc[1][102] = " " /\ desc[1][200] = "n"

\* The joined string is shorter than the limit and is returned whole.
C11_WitnessShort ==
    desc # << >> /\ Len(commits_diff) = 2 /\ Len(desc[1]) = 101

C12_WitnessAbsent ==
    /\ pc[1] = "TORN_DOWN" /\ ndel[1] = 1 /\ del_err[1] = "" /\ err[1] = DirtyError
    /\ active_branch = head_branch_name[1] /\ tmp_branch_name[1] \notin heads

\* No call of prepare_repo on the instance after its construction.
OnlyTeardowns == last.op # "prepare_repo"

\* C13: a second or further run of __del__, with nothing called on the
\* instance in between, ends without error on the original branch with the
\* temporary branch absent.
C13_TeardownIdempotent ==
    (pc[1] = "TORN_DOWN" /\ ndel[1] >= 2 /\ OnlyTeardowns) => (del_err[1] = "" /\ Restored(1))

\* The part of C13 the code keeps: the same, when no rebase stopped.
C13_IdempotentUnlessConflict ==
    (pc[1] = "TORN_DOWN" /\ ndel[1] >= 2 /\ OnlyTeardowns /\ index # "unmerged")
        => (del_err[1] = "" /\ Restored(1))

\* The second teardown after a stopped rebase fails as the first did.
C13_ConflictWitness ==
    /\ pc[1] = "TORN_DOWN" /\ ndel[1] = 2 /\ OnlyTeardowns
    /\ del_err[1] = "GitCommandError" /\ index = "unmerged"
    /\ tmp_branch_name[1] \in heads

\* C14: once __del__ has run on an instance no call on the instance takes it
\* back to PREPARED: none creates its temporary branch again or checks it
\* out.
C14_NoWayBack ==
    [][pc[1] = "TORN_DOWN" =>
          /\ pc'[1] # "PREPARED"
          /\ tmp_branch_name[1] \notin heads => tmp_branch_name[1] \notin heads'
          /\ active_branch # tmp_branch_name[1] => active_branch' # tmp_branch_name[1]]_vars

\* prepare_repo called after a construction that succeeded and a teardown
\* that had restored the repository.
C14_Witness ==
    /\ pc[1] = "PREPARED" /\ ndel[1] = 1 /\ last.op = "prepare_repo" /\ last.err = ""
    /\ err[1] = "" /\ del_err[1] = ""
    /\ active_branch = tmp_branch_name[1] /\ tmp_branch_name[1] \in heads

\* ---- the records and the file list (SpecDiff)
\* The path record r's entry had in tree base, and what the priority order
\* of the classification gives for it: base holds the entry's prior blob,
\* head the resulting one.
PriorPath(r) == IF r.old_filename # None THEN r.old_filename ELSE r.filename
Classify(r, base, head) ==
    IF base[PriorPath(r)] = 0 THEN EDIT_TYPE.ADDED
    ELSE IF head[r.filename] = 0 THEN EDIT_TYPE.DELETED
    ELSE IF PriorPath(r) # r.filename THEN EDIT_TYPE.RENAMED
    ELSE EDIT_TYPE.MODIFIED
\* the records of d that are about path x, as the path or as the old path
About(d, x) == {k \in 1..Len(d[1]) : d[1][k].filename = x \/ d[1][k].old_filename = x}

\* C15: in the diff of head relative to base every changed path is the
\* subject of exactly one record, and the record's edit_type is the first
\* that applies of ADDED (no prior blob), DELETED (no resulting blob),
\* RENAMED (path changed), MODIFIED; a record whose path and content both
\* changed is RENAMED with old_filename the previous path, never MODIFIED.
C15_ClassifiedInOrder ==
    Len(fwd) = 1 =>
        /\ \A x \in Paths : refA[x] # refB[x] => Cardinality(About(fwd, x)) = 1
        /\ \A r \in Records(fwd) :
              /\ r.edit_type = Classify(r, refA, refB)
              /\ (PriorPath(r) # r.filename /\ refA[PriorPath(r)] # refB[r.filename]) =>
                    (r.edit_type = EDIT_TYPE.RENAMED /\ r.old_filename = PriorPath(r))
              /\ r.edit_type = EDIT_TYPE.MODIFIED =>
                    (r.old_filename = None /\ refA[r.filename] # 0 /\ refB[r.filename] # 0)

\* A file renamed and modified next to a file modified in place.
C15_Witness ==
    /\ Len(fwd) = 1 /\ Len(fwd[1]) = 2
    /\ \E r \in Records(fwd) :
          /\ r.edit_type = EDIT_TYPE.RENAMED /\ r.old_filename # None
          /\ refA[r.old_filename] # refB[r.filename] /\ refB[r.old_filename] = 0
    /\ \E r \in Records(fwd) : r.edit_type = EDIT_TYPE.MODIFIED

FilenamesOf(d) == [k \in 1..Len(d[1]) |-> d[1][k].filename]
Listed == Len(fwd) = 1 /\ Len(got_files) = 1

NoRenamePair ==
    /\ \A x \in OnlyIn(refB, refA) : ~HasCounterpart(refB, x, refA)
    /\ \A x \in OnlyIn(refA, refB) : ~HasCounterpart(refA, x, refB)
\* Exactly one file on each side is missing from the other and the two have
\* the same content: one rename, detected in both directions.
OneExactRename ==
    \E a \in Paths, b \in Paths :
        OnlyIn(refA, refB) = {a} /\ OnlyIn(refB, refA) = {b} /\ refA[a] = refB[b]

C17_OrderWitness ==
    /\ Listed /\ OneExactRename
    /\ refB = [p \in Paths |-> IF p \in {1, 2} THEN p ELSE 0]
    /\ refA = [p \in Paths |-> IF p = 2 THEN 3 ELSE IF p = 3 THEN 1 ELSE 0]
    /\ got_files[1] = << 2, 1 >> /\ FilenamesOf(fwd) = << 1, 2 >>

\* ---- the pipeline's operations (SpecPipeline)
PipelineOps == {"get_diff_files", "get_files", "get_languages", "get_pr_branch", "get_user_id",
                "get_pr_description", "get_pr_title", "publish_description",
                "publish_comment", "publish_labels", "remove_initial_comment"}

\* C18: between the end of construction and teardown no call of
\* get_diff_files, get_files, get_languages, get_pr_branch, get_user_id,
\* get_pr_description, get_pr_title, publish_description, publish_comment,
\* publish_labels or remove_initial_comment changes the checked-out branch,
\* the set of branches or the instance's head_branch_name, branch_name and
\* tmp_branch_name; publish_description changes nothing but the description
\* file and publish_comment nothing but the review file.
C18_PipelineFrame ==
    [][(last' # last /\ last'.op \in PipelineOps) =>
          /\ pc[1] = "PREPARED" /\ pc'[1] = "PREPARED"
          /\ UNCHANGED << active_branch, heads, head_branch_name, branch_name, tmp_branch_name >>
          /\ last'.op = "publish_description" => UNCHANGED << repo_vars, inst_vars, review_file >>
          /\ last'.op = "publish_comment" => UNCHANGED << repo_vars, inst_vars, description_file >>
          /\ last'.op \notin {"publish_description", "publish_comment"} => UNCHANGED file_vars]_vars

\* The description was published, the review was not, and the temporary
\* branch is still the checked-out one.
C18_Witness ==
    /\ pc[1] = "PREPARED" /\ last.op = "publish_description"
    /\ description_file.exists /\ ~review_file.exists
    /\ active_branch = tmp_branch_name[1] /\ tmp_branch_name[1] \in heads
    /\ head_branch_name[1] = "feat" /\ branch_name[1] = "main"

\* Both files written and a read-only operation called after a commit.
C18_WitnessRead ==
    /\ pc[1] = "PREPARED" /\ last.op = "get_pr_description" /\ last.err = ""
    /\ Len(last.ret[1]) > 0
    /\ description_file.exists /\ review_file.exists
    /\ active_branch = tmp_branch_name[1]

====
